---- MODULE Spec2Model ----
(***************************************************************************)
(* useShared: a reactive value mirrored across the windows of a Tauri      *)
(* application over the global event bus (src/unnamed/part_000, the        *)
(* variant with a store and reset(); src/index.ts is the older variant).   *)
(*                                                                         *)
(* One handle is one call of useShared() in one window.  A step of the     *)
(* model is one turn of a window's event loop: an event handler or a       *)
(* consumer call, followed by the flush of the watcher job that the turn   *)
(* queued (Vue runs a watch() callback in the microtask after the turn).   *)
(* The values of T are primitives: undefined, the falsy value 0 and the    *)
(* truthy values 1..MaxVal.  The promises of the two listen() calls and of *)
(* once() resolve in one turn, some time after useShared() has returned.   *)
(*                                                                         *)
(* Specifications: Spec (two windows on the key "root", with and without   *)
(* store), FairSpec (Spec with fair delivery), SpecKeys (two windows that  *)
(* choose their keys), SpecJoin (three windows, the first one's consumer   *)
(* writes) and SpecLive (two live windows whose consumers write while      *)
(* updates are in flight).                                                 *)
(***************************************************************************)
EXTENDS Integers, Sequences, FiniteSets, TLC

\* ------------------------------------------------------------------ bounds
NumHandles == 2
MaxVal == 2
MaxWrites == 2
MaxBus == 2
\* The run in which a third window joins two live ones.
NumJoinHandles == 3
MaxJoinBus == 4
MaxJoinWrites == 1
\* The run in which the consumers of live windows write at the same time.
MaxLiveBus == 4
MaxLiveWrites == 2

\* ------------------------------------------------------------------ values
Undef == -1
Defined == 0..MaxVal
Values == {Undef} \cup Defined
Handles == 1..NumHandles

\* JavaScript truthiness of a value of T: undefined and 0 are falsy.
Truthy(v) == v # Undef /\ v # 0

\* Object.is on primitives, as the ref setter and `==` in the listeners use it.
HasChanged(new, old) == new # old

\* JSON.stringify / JSON.parse of the LocalStorage adapter.
NoItem == "null"
Digits == <<"0", "1", "2", "3", "4", "5", "6", "7", "8", "9">>
Stringify(v) == Digits[v + 1]
Parse(s) == CHOOSE v \in 0..9 : Digits[v + 1] = s

\* LocalStorage.get: a missing (or empty) item is undefined.
StoreGet(ls, k) == IF ls[k] = NoItem \/ ls[k] = "" THEN Undef ELSE Parse(ls[k])

\* LocalStorage.set
StoreSet(ls, k, v) == [ls EXCEPT ![k] = Stringify(v)]

\* ------------------------------------------------------------------ config
Keys == {"root", "user"}
NoKey == ""
NoConfig == [present |-> FALSE, initialData |-> Undef, key |-> NoKey, store |-> FALSE]
\* What the closures of a handle read of its config after construction.
Kept(cfg) == [present |-> cfg.present, key |-> cfg.key, store |-> cfg.store]
KeyOptions == {NoKey, "root", "user"}
Configs ==
  {NoConfig} \cup
  [present : {TRUE}, initialData : Values, key : KeyOptions, store : BOOLEAN]
\* The configs of one sync group: no key is given, so the key is "root".
RootConfigs == {cfg \in Configs : cfg.key = NoKey}

\* Every handle on the key "root", whatever its config says.
KeyOfFixed(cfg) == "root"

\* const key = config?.key || "root"
KeyOf(cfg) == IF cfg.present /\ cfg.key # NoKey THEN cfg.key ELSE "root"

\* const id = Math.random().toString(36).slice(2, 7): one id per handle.
Id(h) == h

\* ------------------------------------------------------------------ topics
UpdateTopic(k) == [name |-> "shared:update", key |-> k, id |-> 0]
GetTopic(k) == [name |-> "shared:get", key |-> k, id |-> 0]
SetTopic(k, i) == [name |-> "shared:set", key |-> k, id |-> i]

Listeners == {"update", "get", "set"}

VARIABLES
  constructed,   \* handles for which useShared() has returned
  config,        \* the config each handle was constructed with
  dataRef,       \* dataRef.value
  initialData,   \* initialData.value
  updating,      \* updating.value
  isSynced,      \* isSynced.value
  pendingReg,    \* listen()/once() promises not yet resolved
  listening,     \* listeners registered on the bus
  unlistenFns,   \* the elements of the unlistenFns array
  watching,      \* the watch(dataRef) watcher is active
  destroyed,     \* destroy() has been called
  localStorage,  \* window.localStorage, shared by the windows
  bus,           \* events emitted and not yet delivered, one per window
  writes,        \* number of consumer writes so far
  lastOp,        \* the turn just taken
  effects,       \* what the turn just taken did, in program order
  limit          \* the bounds of the run: events in flight, consumer writes

vars == <<constructed, config, dataRef, initialData, updating, isSynced,
          pendingReg, listening, unlistenFns, watching, destroyed,
          localStorage, bus, writes, lastOp, effects, limit>>

handleVars == <<dataRef, initialData, updating, isSynced>>

\* A turn: the operation, its handle, the id and data of the payload (or the
\* value written), whether the guard let it through, whether it changed
\* dataRef.value and whether the watcher callback ran.
Op(name, h, from, data, accepted, changed, triggered) ==
  [op |-> name, h |-> h, from |-> from, data |-> data, accepted |-> accepted,
   changed |-> changed, triggered |-> triggered]

\* ----------------------------------------------------------------- effects
Emit(topic, i, d, ini) ==
  [kind |-> "emit", topic |-> topic, id |-> i, data |-> d, initialData |-> ini]
StoreSetEff(k, d, ok) ==
  [kind |-> IF ok THEN "store.set" ELSE "store.set throws",
   topic |-> UpdateTopic(k), id |-> 0, data |-> d, initialData |-> Undef]
Note(kind) ==
  [kind |-> kind, topic |-> UpdateTopic(NoKey), id |-> 0, data |-> Undef, initialData |-> Undef]

Emits(eff) == {eff[i] : i \in {j \in 1..Len(eff) : eff[j].kind = "emit"}}
StoreSets(eff) == {eff[i] : i \in {j \in 1..Len(eff) : eff[j].kind = "store.set"}}
StoreCalls(eff) ==
  {eff[i] : i \in {j \in 1..Len(eff) : eff[j].kind \in {"store.set", "store.set throws"}}}

\* The topic a listener of a handle with config cfg is for.
ListenerTopic(cfg, h, l) ==
  CASE l = "update" -> UpdateTopic(KeyOf(cfg))
    [] l = "get" -> GetTopic(KeyOf(cfg))
    [] l = "set" -> SetTopic(KeyOf(cfg), Id(h))

\* emit(): the bus hands the event to every window that has asked for its topic,
\* the emitting window included.
Routes(topic, cfgs, windows) ==
  {w \in windows : \E l \in Listeners : ListenerTopic(cfgs[w], w, l) = topic}
BusAfter(b, eff, cfgs, windows) ==
  b \cup UNION {{[topic |-> e.topic, id |-> e.id, data |-> e.data,
                  initialData |-> e.initialData, to |-> w] :
                    w \in Routes(e.topic, cfgs, windows)} : e \in Emits(eff)}

\* Every store.set of one turn writes the same value.
LocalStorageAfter(eff) ==
  IF StoreSets(eff) = {} THEN localStorage
  ELSE LET s == CHOOSE s \in StoreSets(eff) : TRUE
       IN StoreSet(localStorage, s.topic.key, s.data)

\* At most limit.bus events are in flight.
BusBound(b) == Cardinality(b) <= limit.bus

\* No window has called useShared(); the run has the windows hs.
NoHandle(hs, maxBus, maxWrites) ==
  /\ constructed = {}
  /\ config = [h \in hs |-> Kept(NoConfig)]
  /\ dataRef = [h \in hs |-> Undef]
  /\ initialData = [h \in hs |-> Undef]
  /\ updating = [h \in hs |-> FALSE]
  /\ isSynced = [h \in hs |-> FALSE]
  /\ pendingReg = [h \in hs |-> {}]
  /\ listening = [h \in hs |-> {}]
  /\ unlistenFns = [h \in hs |-> {}]
  /\ watching = [h \in hs |-> FALSE]
  /\ destroyed = [h \in hs |-> FALSE]
  /\ localStorage = [k \in Keys |-> NoItem]
  /\ bus = {}
  /\ writes = 0
  /\ lastOp = Op("init", 0, 0, Undef, FALSE, FALSE, FALSE)
  /\ effects = <<>>
  /\ limit = [bus |-> maxBus, writes |-> maxWrites]

Init == NoHandle(Handles, MaxBus, MaxWrites)

\* if (config?.initialData) { dataRef.value = ...; initialData.value = ...;
\*   if (config?.store && dataRef.value) dataRef.value = config.store.get(key) }
InitialValue(cfg) ==
  IF cfg.present /\ Truthy(cfg.initialData) THEN cfg.initialData ELSE Undef
InitialDataRef(cfg, ls) ==
  IF cfg.present /\ Truthy(cfg.initialData)
  THEN IF cfg.store THEN StoreGet(ls, KeyOf(cfg)) ELSE cfg.initialData
  ELSE Undef

\* useShared(config): windows are opened in the order of their handle number.
Construct(h, cfg) ==
  /\ h \notin constructed
  /\ \A g \in Handles : g < h => g \in constructed
  /\ constructed' = constructed \cup {h}
  /\ config' = [config EXCEPT ![h] = Kept(cfg)]
  /\ dataRef' = [dataRef EXCEPT ![h] = InitialDataRef(cfg, localStorage)]
  /\ initialData' = [initialData EXCEPT ![h] = InitialValue(cfg)]
  /\ pendingReg' = [pendingReg EXCEPT ![h] = Listeners]
  /\ unlistenFns' = [unlistenFns EXCEPT ![h] = {"watch"}]
  /\ watching' = [watching EXCEPT ![h] = TRUE]
  /\ effects' = <<Emit(GetTopic(KeyOf(cfg)), Id(h), Undef, Undef)>>
  /\ bus' = BusAfter(bus, effects', config', constructed')
  /\ BusBound(bus')
  /\ lastOp' = Op("construct", h, 0, cfg.initialData, cfg.present, FALSE, FALSE)
  /\ UNCHANGED <<limit, updating, isSynced, listening, destroyed, localStorage, writes>>

\* listen(...).then((unlistenFn) => unlistenFns.push(unlistenFn)): the promises
\* of listen()/once() resolve some time after useShared() has returned; from
\* then on the listeners receive events and their unlisten functions are in
\* the array.
Registered(h) ==
  /\ pendingReg[h] # {}
  /\ listening' = [listening EXCEPT ![h] = @ \cup pendingReg[h]]
  /\ unlistenFns' = [unlistenFns EXCEPT ![h] = @ \cup pendingReg[h]]
  /\ pendingReg' = [pendingReg EXCEPT ![h] = {}]
  /\ effects' = <<>>
  /\ lastOp' = Op("registered", h, 0, Undef, FALSE, FALSE, FALSE)
  /\ UNCHANGED <<limit, constructed, config, handleVars, watching, destroyed, localStorage,
                 bus, writes>>

\* sync() without the try/catch around store.set: a throw ends the call.
SyncUncaught(h, v, ok) ==
  IF v = Undef THEN <<>>
  ELSE <<Emit(UpdateTopic(KeyOf(config[h])), Id(h), v, Undef)>>
       \o (IF config[h].store /\ Truthy(v)
           THEN <<StoreSetEff(KeyOf(config[h]), v, ok)>> ELSE <<>>)
       \o (IF config[h].store /\ Truthy(v) /\ ~ok THEN <<>>
           ELSE <<Note("lastUpdated"), Note("updateSent")>>)

\* sync(): what it does when dataRef.value is v; ok is whether store.set returns.
Sync(h, v, ok) ==
  IF v = Undef THEN <<>>
  ELSE <<Emit(UpdateTopic(KeyOf(config[h])), Id(h), v, Undef)>>
       \o (IF config[h].store /\ Truthy(v)
           THEN <<StoreSetEff(KeyOf(config[h]), v, ok)>> ELSE <<>>)
       \o <<Note("lastUpdated"), Note("updateSent")>>

\* The callback without the test of updating.value: every change is broadcast.
WatchCallbackAlways(h, upd, v, ok) == [updating |-> upd, eff |-> Sync(h, v, ok)]

\* The callback of watch(dataRef, ..., { deep: true }).
WatchCallback(h, upd, v, ok) ==
  IF upd THEN [updating |-> FALSE, eff |-> <<>>]
  ELSE [updating |-> upd, eff |-> Sync(h, v, ok)]

\* The watcher job at the end of a turn: it runs when the turn changed
\* dataRef.value and the watcher has not been stopped.
Flush(h, triggered, upd, v, ok) ==
  IF triggered /\ watching[h] THEN WatchCallback(h, upd, v, ok)
  ELSE [updating |-> upd, eff |-> <<>>]

Triggered(h, v) == HasChanged(v, dataRef[h]) /\ watching[h]

\* The guard without `event.payload.id == id`.
UpdateGuardNoId(h, m) == TRUE

\* The guard of the shared:update listener (the payload is present).
UpdateGuard(h, m) == m.id # Id(h)

\* The guard of the shared:get listener of the older variant (src/index.ts):
\* `!dataRef.value` instead of `dataRef.value == undefined`.
GetGuardOlder(h, m) == m.id # Id(h) /\ Truthy(dataRef[h])

\* The guard of the shared:get listener.
GetGuard(h, m) == m.id # Id(h) /\ dataRef[h] # Undef

\* The guards of the shared:set once-listener.
SetGuard(h, m) == m.id # Id(h) /\ dataRef[h] # m.data

\* The listener without `updating.value = true`.
UpdateListenerNoFlag(h, m) ==
  [dataRef |-> m.data, updating |-> updating[h],
   eff |-> <<Note("lastUpdated"), Note("updateReceived")>>]

\* The body of the shared:update listener.
UpdateListener(h, m) ==
  [dataRef |-> m.data, updating |-> TRUE,
   eff |-> <<Note("lastUpdated"), Note("updateReceived")>>]

\* The body of the shared:get listener.
GetListener(h, m) ==
  <<Emit(SetTopic(KeyOf(config[h]), m.id), Id(h), dataRef[h], initialData[h]),
    Note("syncSent")>>

\* The body of the shared:set once-listener.
SetListener(h, m, ok) ==
  [dataRef |-> m.data, initialData |-> m.initialData, isSynced |-> TRUE,
   eff |-> (IF config[h].store /\ Truthy(m.data)
            THEN <<StoreSetEff(KeyOf(config[h]), m.data, ok)>> ELSE <<>>)
           \o <<Note("lastUpdated"), Note("syncReceived")>>]

Subscribed(h, l, m) ==
  /\ m.to = h
  /\ l \in listening[h]
  /\ m.topic = ListenerTopic(config[h], h, l)

\* An event on shared:update:<key> reaches window h.
DeliverUpdate(m, ok) ==
  LET h == m.to
      acc == UpdateGuard(h, m)
      r == IF acc THEN UpdateListener(h, m)
           ELSE [dataRef |-> dataRef[h], updating |-> updating[h], eff |-> <<>>]
      f == Flush(h, HasChanged(r.dataRef, dataRef[h]), r.updating, r.dataRef, ok)
  IN /\ m \in bus
     /\ Subscribed(h, "update", m)
     /\ dataRef' = [dataRef EXCEPT ![h] = r.dataRef]
     /\ updating' = [updating EXCEPT ![h] = f.updating]
     /\ effects' = r.eff \o f.eff
     /\ bus' = BusAfter(bus \ {m}, effects', config, constructed)
     /\ BusBound(bus')
     /\ localStorage' = LocalStorageAfter(effects')
     /\ lastOp' = Op("update", h, m.id, m.data, acc, HasChanged(r.dataRef, dataRef[h]),
                     Triggered(h, r.dataRef))
     /\ UNCHANGED <<limit, constructed, config, initialData, isSynced, pendingReg, listening,
                    unlistenFns, watching, destroyed, writes>>

\* An event on shared:get:<key> reaches window h.
DeliverGet(m) ==
  LET h == m.to
      acc == GetGuard(h, m)
  IN /\ m \in bus
     /\ Subscribed(h, "get", m)
     /\ effects' = IF acc THEN GetListener(h, m) ELSE <<>>
     /\ bus' = BusAfter(bus \ {m}, effects', config, constructed)
     /\ BusBound(bus')
     /\ lastOp' = Op("get", h, m.id, m.data, acc, FALSE, FALSE)
     /\ UNCHANGED <<limit, constructed, config, handleVars, pendingReg, listening,
                    unlistenFns, watching, destroyed, localStorage, writes>>

\* A listener registered with once() that stays registered after an event.
OnceKept(h, l) == listening[h]

\* once(): the listener is removed when its first event arrives.
Once(h, l) == listening[h] \ {l}

\* An event on shared:set:<key>:<id> reaches window h; once() removes the
\* listener before the handler runs.
DeliverSet(m, ok1, ok2) ==
  LET h == m.to
      acc == SetGuard(h, m)
      r == IF acc THEN SetListener(h, m, ok1)
           ELSE [dataRef |-> dataRef[h], initialData |-> initialData[h],
                 isSynced |-> isSynced[h], eff |-> <<>>]
      f == Flush(h, HasChanged(r.dataRef, dataRef[h]), updating[h], r.dataRef, ok2)
  IN /\ m \in bus
     /\ Subscribed(h, "set", m)
     /\ listening' = [listening EXCEPT ![h] = Once(h, "set")]
     /\ dataRef' = [dataRef EXCEPT ![h] = r.dataRef]
     /\ initialData' = [initialData EXCEPT ![h] = r.initialData]
     /\ isSynced' = [isSynced EXCEPT ![h] = r.isSynced]
     /\ updating' = [updating EXCEPT ![h] = f.updating]
     /\ effects' = r.eff \o f.eff
     /\ bus' = BusAfter(bus \ {m}, effects', config, constructed)
     /\ BusBound(bus')
     /\ localStorage' = LocalStorageAfter(effects')
     /\ lastOp' = Op("set", h, m.id, m.data, acc, HasChanged(r.dataRef, dataRef[h]),
                     Triggered(h, r.dataRef))
     /\ UNCHANGED <<limit, constructed, config, pendingReg, unlistenFns, watching,
                    destroyed, writes>>

\* An event reaches a window that has no listener for its topic.
DeliverNone(m) ==
  /\ m \in bus
  /\ \A l \in Listeners : ~Subscribed(m.to, l, m)
  /\ bus' = bus \ {m}
  /\ effects' = <<>>
  /\ lastOp' = Op("none", m.to, m.id, m.data, FALSE, FALSE, FALSE)
  /\ UNCHANGED <<limit, constructed, config, handleVars, pendingReg, listening,
                 unlistenFns, watching, destroyed, localStorage, writes>>

\* The consumer assigns data.value = v.
LocalWrite(h, v, ok) ==
  LET f == Flush(h, HasChanged(v, dataRef[h]), updating[h], v, ok)
  IN /\ h \in constructed
     /\ writes < limit.writes
     /\ writes' = writes + 1
     /\ dataRef' = [dataRef EXCEPT ![h] = v]
     /\ updating' = [updating EXCEPT ![h] = f.updating]
     /\ effects' = f.eff
     /\ bus' = BusAfter(bus, effects', config, constructed)
     /\ BusBound(bus')
     /\ localStorage' = LocalStorageAfter(effects')
     /\ lastOp' = Op("write", h, 0, v, TRUE, HasChanged(v, dataRef[h]), Triggered(h, v))
     /\ UNCHANGED <<limit, constructed, config, initialData, isSynced, pendingReg,
                    listening, unlistenFns, watching, destroyed>>

\* if (!config || initialData.value == undefined) return;
ResetGuard(h) == config[h].present /\ initialData[h] # Undef

\* reset()
Reset(h, ok) ==
  LET v == IF ResetGuard(h) THEN initialData[h] ELSE dataRef[h]
      f == Flush(h, HasChanged(v, dataRef[h]), updating[h], v, ok)
  IN /\ h \in constructed
     /\ writes < limit.writes
     /\ writes' = writes + 1
     /\ dataRef' = [dataRef EXCEPT ![h] = v]
     /\ updating' = [updating EXCEPT ![h] = f.updating]
     /\ effects' = f.eff
     /\ bus' = BusAfter(bus, effects', config, constructed)
     /\ BusBound(bus')
     /\ localStorage' = LocalStorageAfter(effects')
     /\ lastOp' = Op("reset", h, 0, v, ResetGuard(h), HasChanged(v, dataRef[h]),
                     Triggered(h, v))
     /\ UNCHANGED <<limit, constructed, config, initialData, isSynced, pendingReg,
                    listening, unlistenFns, watching, destroyed>>

\* destroy() that leaves the watcher running.
UnlistenedListenersOnly(h) == unlistenFns[h] \ {"watch"}

\* unlistenFns.forEach((unlistenFn) => unlistenFn())
Unlistened(h) == unlistenFns[h]

\* destroy()
Destroy(h) ==
  /\ h \in constructed
  /\ ~destroyed[h]
  /\ destroyed' = [destroyed EXCEPT ![h] = TRUE]
  /\ watching' = [watching EXCEPT ![h] = @ /\ "watch" \notin Unlistened(h)]
  /\ listening' = [listening EXCEPT ![h] = @ \ Unlistened(h)]
  /\ effects' = <<>>
  /\ lastOp' = Op("destroy", h, 0, Undef, TRUE, FALSE, FALSE)
  /\ UNCHANGED <<limit, constructed, config, handleVars, pendingReg, unlistenFns,
                 localStorage, bus, writes>>

Next ==
  \/ \E h \in Handles, cfg \in RootConfigs : Construct(h, cfg)
  \/ \E h \in Handles : Registered(h)
  \/ \E m \in bus, ok \in BOOLEAN : DeliverUpdate(m, ok)
  \/ \E m \in bus : DeliverGet(m)
  \/ \E m \in bus, ok1, ok2 \in BOOLEAN : DeliverSet(m, ok1, ok2)
  \/ \E m \in bus : DeliverNone(m)
  \/ \E h \in Handles, v \in Values, ok \in BOOLEAN : LocalWrite(h, v, ok)
  \/ \E h \in Handles, ok \in BOOLEAN : Reset(h, ok)
  \/ \E h \in Handles : Destroy(h)

Spec == Init /\ [][Next]_vars

\* The bus delivers: an event in flight reaches its window.
Deliver ==
  \E m \in bus :
    \/ \E ok \in BOOLEAN : DeliverUpdate(m, ok)
    \/ DeliverGet(m)
    \/ \E ok1, ok2 \in BOOLEAN : DeliverSet(m, ok1, ok2)
    \/ DeliverNone(m)

FairSpec == Spec /\ WF_vars(Deliver)

\* Windows that choose their keys freely and use no store.
KeyedConfigs == {cfg \in Configs : ~cfg.store}

NextKeys ==
  \/ \E h \in Handles, cfg \in KeyedConfigs : Construct(h, cfg)
  \/ \E h \in Handles : Registered(h)
  \/ \E m \in bus : DeliverUpdate(m, TRUE)
  \/ \E m \in bus : DeliverGet(m)
  \/ \E m \in bus : DeliverSet(m, TRUE, TRUE)
  \/ \E m \in bus : DeliverNone(m)
  \/ \E h \in Handles, v \in Values : LocalWrite(h, v, TRUE)
  \/ \E h \in Handles : Reset(h, TRUE)
  \/ \E h \in Handles : Destroy(h)

SpecKeys == Init /\ [][NextKeys]_vars

\* A third window joins: windows without key and without store; only the
\* consumer of the first window writes.
FirstHandle == 1
JoinConfigs == {cfg \in RootConfigs : ~cfg.store}
JoinHandles == 1..NumJoinHandles

InitJoin == NoHandle(JoinHandles, MaxJoinBus, MaxJoinWrites)

NextJoin ==
  \/ \E h \in JoinHandles, cfg \in JoinConfigs : Construct(h, cfg)
  \/ \E h \in JoinHandles : Registered(h)
  \/ \E m \in bus : DeliverUpdate(m, TRUE)
  \/ \E m \in bus : DeliverGet(m)
  \/ \E m \in bus : DeliverSet(m, TRUE, TRUE)
  \/ \E m \in bus : DeliverNone(m)
  \/ \E v \in Defined : LocalWrite(FirstHandle, v, TRUE)

SpecJoin == InitJoin /\ [][NextJoin]_vars

\* Every window has called useShared({ initialData: v }), in the order of the
\* handle numbers, each after the handshake of the one before had finished:
\* the listeners are registered, every sync request has been answered by the
\* first window, and every response carried the value its receiver already
\* had.  The consumers of the windows write from here on.
Live(v, maxBus, maxWrites) ==
  /\ constructed = Handles
  /\ config = [h \in Handles |->
                 Kept([present |-> TRUE, initialData |-> v, key |-> NoKey,
                       store |-> FALSE])]
  /\ dataRef = [h \in Handles |-> v]
  /\ initialData = [h \in Handles |-> v]
  /\ updating = [h \in Handles |-> FALSE]
  /\ isSynced = [h \in Handles |-> FALSE]
  /\ pendingReg = [h \in Handles |-> {}]
  /\ listening = [h \in Handles |->
                    IF h = 1 THEN Listeners ELSE Listeners \ {"set"}]
  /\ unlistenFns = [h \in Handles |-> Listeners \cup {"watch"}]
  /\ watching = [h \in Handles |-> TRUE]
  /\ destroyed = [h \in Handles |-> FALSE]
  /\ localStorage = [k \in Keys |-> NoItem]
  /\ bus = {}
  /\ writes = 0
  /\ lastOp = Op("set", NumHandles, Id(1), v, FALSE, FALSE, FALSE)
  /\ effects = <<>>
  /\ limit = [bus |-> maxBus, writes |-> maxWrites]

InitLive == \E v \in 1..MaxVal : Live(v, MaxLiveBus, MaxLiveWrites)

\* The bus delivers the events of one sender on one topic in the order of
\* their emission: no second update of h is emitted while one is in flight.
NoneInFlight(h) == \A m \in bus : m.id # Id(h)

NextLive ==
  \/ \E h \in Handles, v \in Defined : NoneInFlight(h) /\ LocalWrite(h, v, TRUE)
  \/ \E m \in bus : DeliverUpdate(m, TRUE)

SpecLive == InitLive /\ [][NextLive]_vars

\* ------------------------------------------------------------------ claims
Delivered(m) == m \in bus /\ m \notin bus'
UpdatesSent(eff, h, v) ==
  Cardinality({j \in 1..Len(eff) :
                 /\ eff[j].kind = "emit"
                 /\ eff[j].topic = UpdateTopic(KeyOf(config[h]))
                 /\ eff[j].id = Id(h)
                 /\ eff[j].data = v})
UpdateEmits(eff) == {e \in Emits(eff) : e.topic.name = "shared:update"}
HandleUnchanged(h) ==
  /\ dataRef'[h] = dataRef[h]
  /\ initialData'[h] = initialData[h]
  /\ isSynced'[h] = isSynced[h]
  /\ updating'[h] = updating[h]

\* C1: when the sync response to a live handle B is delivered, B's value is the
\* value the responder held when it answered the request.
C1_JoinConvergence ==
  [][\A m \in bus :
       (Delivered(m) /\ m.topic.name = "shared:set" /\ ~destroyed[m.to])
         => dataRef'[m.to] = m.data]_vars

\* C2: a local write (or reset) on a live handle that changes the value to a
\* defined value emits exactly one update with the handle's id and the value.
C2_LocalWriteBroadcast ==
  [][(/\ lastOp'.op \in {"write", "reset"}
      /\ ~destroyed[lastOp'.h]
      /\ dataRef'[lastOp'.h] # dataRef[lastOp'.h]
      /\ dataRef'[lastOp'.h] # Undef)
        => /\ UpdatesSent(effects', lastOp'.h, dataRef'[lastOp'.h]) = 1
           /\ Cardinality(Emits(effects')) = 1]_vars

\* C3: the turn that applies an inbound update of another handle emits nothing.
C3_NoEcho ==
  (lastOp.op = "update" /\ lastOp.accepted)
    => /\ lastOp.from # Id(lastOp.h)
       /\ Emits(effects) = {}
       /\ StoreCalls(effects) = {}
C3_Witness ==
  /\ lastOp.op = "update" /\ lastOp.accepted /\ lastOp.triggered
  /\ lastOp.from # Id(lastOp.h)
  /\ dataRef[lastOp.h] = lastOp.data
  /\ Emits(effects) = {}

\* C4: an event that carries the receiving handle's own id changes nothing of
\* the handle and causes no emission and no callback.
C4_SelfEcho ==
  [][\A m \in bus :
       (Delivered(m) /\ m.id = Id(m.to))
         => HandleUnchanged(m.to) /\ effects' = <<>> /\ ~lastOp'.accepted]_vars
C4_Witness ==
  /\ lastOp.op = "update"
  /\ lastOp.from = Id(lastOp.h)
  /\ ~lastOp.accepted
  /\ dataRef[lastOp.h] # lastOp.data

\* C5: an event delivered to a handle after destroy() changes nothing of the
\* handle and causes no emission.
C5_NoEventAfterDestroy ==
  [][\A m \in bus :
       (Delivered(m) /\ destroyed[m.to])
         => HandleUnchanged(m.to) /\ Emits(effects') = {}]_vars

\* C6: a local write after destroy() changes the value and emits no update and
\* calls no store.set.
C6_WriteAfterDestroy ==
  (lastOp.op \in {"write", "reset"} /\ destroyed[lastOp.h])
    => /\ dataRef[lastOp.h] = lastOp.data
       /\ Emits(effects) = {}
       /\ StoreCalls(effects) = {}
C6_Witness ==
  /\ lastOp.op = "write" /\ destroyed[lastOp.h]
  /\ lastOp.changed /\ lastOp.data # Undef
  /\ dataRef[lastOp.h] = lastOp.data
  /\ config[lastOp.h].store
  /\ effects = <<>>

\* C7: once a sync response of another handle has been delivered to a handle,
\* its isSynced is true.
C7_SyncedAfterResponse ==
  (lastOp.op = "set" /\ lastOp.from # Id(lastOp.h)) => isSynced[lastOp.h]

\* C8: reset() on a live handle with a recorded initial value other than the
\* current value sets the value to it and emits exactly one update carrying it;
\* with no initial value recorded it changes nothing and emits nothing.
C8_Reset ==
  [][(lastOp'.op = "reset" /\ ~destroyed[lastOp'.h] /\ config[lastOp'.h].present)
       => IF initialData[lastOp'.h] = Undef
          THEN HandleUnchanged(lastOp'.h) /\ effects' = <<>>
          ELSE /\ dataRef'[lastOp'.h] = initialData[lastOp'.h]
               /\ dataRef[lastOp'.h] # initialData[lastOp'.h]
                    => /\ UpdatesSent(effects', lastOp'.h, initialData[lastOp'.h]) = 1
                       /\ Cardinality(Emits(effects')) = 1]_vars

\* C9: a handle constructed with initialData and a store has store.get(key) as
\* its value and the constructor's initialData as its initial value, and its
\* construction emits no update and calls no store.set.
C9_StorePrecedence ==
  (/\ lastOp.op = "construct" /\ lastOp.accepted
   /\ lastOp.data # Undef /\ config[lastOp.h].store)
    => /\ dataRef[lastOp.h] = StoreGet(localStorage, KeyOf(config[lastOp.h]))
       /\ initialData[lastOp.h] = lastOp.data
       /\ UpdateEmits(effects) = {}
       /\ StoreCalls(effects) = {}

\* C10: when a handle with a store emits an update and store.set does not
\* throw, store.get(key) is the value of the update.
C10_PersistOnBroadcast ==
  \A e \in UpdateEmits(effects) :
    (/\ config[lastOp.h].store
     /\ \A c \in StoreCalls(effects) : c.kind = "store.set")
      => StoreGet(localStorage, e.topic.key) = e.data

\* The positions of the store.set calls of a turn that threw.
ThrowsAt(eff) == {j \in 1..Len(eff) : eff[j].kind = "store.set throws"}

\* C11: a store.set that throws does not end the step.  In sync() the update
\* has been emitted before it and lastUpdated and on.updateSent follow it; in
\* the once-listener of an accepted sync response the value and initialValue
\* are those of the payload, isSynced is true and lastUpdated and
\* on.syncReceived follow it.
C11_StoreSetFailure ==
  [][\A j \in ThrowsAt(effects') :
       LET h == lastOp'.h
       IN /\ j + 2 <= Len(effects')
          /\ effects'[j + 1].kind = "lastUpdated"
          /\ \/ /\ effects'[j + 2].kind = "updateSent"
                /\ j > 1
                /\ effects'[j - 1] =
                     Emit(UpdateTopic(KeyOf(config[h])), Id(h), effects'[j].data, Undef)
                /\ dataRef'[h] = effects'[j].data
             \/ /\ effects'[j + 2].kind = "syncReceived"
                /\ lastOp'.op = "set" /\ lastOp'.accepted
                /\ \E m \in bus :
                     /\ Delivered(m) /\ m.to = h /\ m.topic.name = "shared:set"
                     /\ dataRef'[h] = m.data
                     /\ initialData'[h] = m.initialData
                /\ isSynced'[h]]_vars
C11_Witness ==
  /\ lastOp.op = "set" /\ lastOp.accepted
  /\ Len(effects) = 7
  /\ ThrowsAt(effects) = {1, 5}
  /\ effects[3].kind = "syncReceived"
  /\ effects[4].kind = "emit"
  /\ effects[7].kind = "updateSent"
  /\ isSynced[lastOp.h]
  /\ dataRef[lastOp.h] = lastOp.data

\* C13: between turns the re-entrancy flag is false: once an inbound update has
\* been handled (the listener and the watcher run it triggers, if any), the
\* next local change is evaluated with the flag false.
C13_FlagCleared == \A h \in Handles : ~updating[h]

\* C14: the turn that accepts a sync response emits no update and calls
\* store.set at most once.
C14_ResponseNotRebroadcast ==
  (lastOp.op = "set" /\ lastOp.accepted)
    => /\ UpdateEmits(effects) = {}
       /\ Cardinality(ThrowsAt(effects)) + Cardinality(StoreSets(effects)) <= 1

SetEmits(eff) == {e \in Emits(eff) : e.topic.name = "shared:set"}

\* C15: a turn emits a sync response exactly when it handles a sync request of
\* another handle while the value is defined; the response is the only emission
\* of the turn, goes to shared:set:<key>:<requester id> and carries the
\* responder's id, value and initialValue; a response in flight is addressed to
\* the window of the requester only, and only the requester handles it.
C15_SyncRequestAnswering ==
  [][LET h == lastOp'.h
     IN /\ SetEmits(effects') # {}
             <=> (lastOp'.op = "get" /\ lastOp'.from # Id(h) /\ dataRef[h] # Undef)
        /\ SetEmits(effects') # {}
             => Emits(effects') =
                  {Emit(SetTopic(KeyOf(config[h]), lastOp'.from), Id(h),
                        dataRef[h], initialData[h])}
        /\ \A m \in bus' : m.topic.name = "shared:set" => m.topic.id = Id(m.to)
        /\ \A m \in bus :
             (Delivered(m) /\ m.topic.name = "shared:set" /\ lastOp'.op = "set")
               => m.topic.id = Id(h)]_vars
C15_Witness ==
  /\ lastOp.op = "get" /\ lastOp.accepted
  /\ dataRef[lastOp.h] = 0
  /\ \E m \in bus :
       /\ m.topic = SetTopic(KeyOf(config[lastOp.h]), lastOp.from)
       /\ m.to # lastOp.h /\ Id(m.to) = lastOp.from
       /\ m.id = Id(lastOp.h) /\ m.data = 0
       /\ m.initialData = initialData[lastOp.h] /\ m.initialData # Undef
  /\ \E w \in constructed \ {lastOp.h} :
       Id(w) # lastOp.from /\ "set" \in listening[w]

\* C17: a handle constructed with (truthy) initialData and a store that holds
\* nothing for the key has the constructor's initialData as its value.
C17_EmptyStoreKeepsInitialData ==
  (/\ lastOp.op = "construct" /\ lastOp.accepted
   /\ Truthy(lastOp.data) /\ config[lastOp.h].store
   /\ StoreGet(localStorage, KeyOf(config[lastOp.h])) = Undef)
    => dataRef[lastOp.h] = lastOp.data

\* The group of a handle as the specification defines it: the key of its
\* config, "root" when none was given.
GroupKey(cfg) == IF cfg.key = NoKey THEN "root" ELSE cfg.key
\* The handle that emitted an event.
Sender(m) == CHOOSE s \in DOMAIN config : Id(s) = m.id

\* C12: every emission of a handle is on a topic of its own group; an event is
\* in flight only to handles of the sender's group, and an event of a handle of
\* another group changes nothing of the receiver and makes it emit nothing.
C12_KeyIsolation ==
  [][/\ \A e \in Emits(effects') : e.topic.key = GroupKey(config'[lastOp'.h])
     /\ \A m \in bus' : GroupKey(config'[Sender(m)]) = GroupKey(config'[m.to])
     /\ \A m \in bus :
          (Delivered(m) /\ GroupKey(config[Sender(m)]) # GroupKey(config[m.to]))
            => /\ dataRef'[m.to] = dataRef[m.to]
               /\ initialData'[m.to] = initialData[m.to]
               /\ isSynced'[m.to] = isSynced[m.to]
               /\ Emits(effects') = {}]_vars
C12_Witness ==
  /\ lastOp.op = "write" /\ UpdateEmits(effects) # {}
  /\ config[lastOp.h].present /\ config[lastOp.h].key = NoKey
  /\ \E h \in constructed :
       /\ config[h].key = "user"
       /\ "update" \in listening[h]
       /\ dataRef[h] # lastOp.data
       /\ \A m \in bus : m.to # h
  /\ \E m \in bus : m.to = lastOp.h /\ m.topic = UpdateTopic("root")

\* The once-listener of h has been registered and is registered no longer.
SetListenerGone(h, pending, registered) ==
  h \in constructed /\ "set" \notin pending[h] /\ "set" \notin registered[h]

\* C16: the sync-response handler runs only while the once-listener is
\* registered, which ends with its first event and never comes back; a sync
\* response delivered after that changes nothing of the handle and has no
\* effect.
C16_OneShot ==
  [][/\ lastOp'.op = "set"
          => /\ "set" \in listening[lastOp'.h]
             /\ SetListenerGone(lastOp'.h, pendingReg', listening')
     /\ \A h \in DOMAIN config :
          SetListenerGone(h, pendingReg, listening)
            => SetListenerGone(h, pendingReg', listening')
     /\ \A m \in bus :
          (/\ Delivered(m) /\ m.topic.name = "shared:set"
           /\ SetListenerGone(m.to, pendingReg, listening))
            => HandleUnchanged(m.to) /\ effects' = <<>>]_vars
C16_Witness ==
  /\ lastOp.op = "none" /\ lastOp.data # Undef
  /\ lastOp.from # Id(lastOp.h)
  /\ "update" \in listening[lastOp.h] /\ "set" \notin listening[lastOp.h]
  /\ isSynced[lastOp.h] /\ ~destroyed[lastOp.h]
  /\ dataRef[lastOp.h] # lastOp.data

\* C19: useShared() changes no other handle's value and emits only the sync
\* request with the handle's id; an update of a handle that made no local
\* write (in SpecJoin every handle but the first) does not change the value
\* of a handle that was live before it.
C19_NewcomerDoesNotDisturb ==
  [][/\ lastOp'.op = "construct"
          => /\ \A g \in DOMAIN dataRef \ {lastOp'.h} : dataRef'[g] = dataRef[g]
             /\ effects' = <<Emit(GetTopic(KeyOf(config'[lastOp'.h])),
                                  Id(lastOp'.h), Undef, Undef)>>
     /\ \A m \in bus :
          (/\ Delivered(m) /\ m.topic.name = "shared:update"
           /\ m.id # Id(FirstHandle) /\ m.to < Sender(m))
            => dataRef'[m.to] = dataRef[m.to]]_vars

\* No event is in flight and no listener is still to be registered.
Quiescent == bus = {} /\ \A h \in DOMAIN pendingReg : pendingReg[h] = {}

\* C18: when no event is in flight, the live handles of one key hold the same
\* value.
C18_Convergence ==
  Quiescent
    => \A g, h \in constructed :
         (~destroyed[g] /\ ~destroyed[h] /\ KeyOf(config[g]) = KeyOf(config[h]))
           => dataRef[g] = dataRef[h]

\* Live(1, ...) is a state of Spec: the invariant ~LiveReached is violated.
LiveReached == Live(1, MaxBus, MaxWrites)

\* C20: a turn emits at most one update, and only the turn of a local write,
\* of a reset() or of an accepted sync response emits one (so the updates ever
\* emitted are at most the local writes plus the accepted responses, and none
\* answers an inbound update); and the run reaches a state from which no event
\* is in flight any more.
C20_NoEchoStorm ==
  /\ [](/\ UpdatesSent(effects, lastOp.h, dataRef[lastOp.h])
              = Cardinality({j \in 1..Len(effects) : effects[j].kind = "emit"
                               /\ effects[j].topic.name = "shared:update"})
        /\ UpdateEmits(effects) # {}
             => /\ UpdatesSent(effects, lastOp.h, dataRef[lastOp.h]) = 1
                /\ \/ lastOp.op \in {"write", "reset"}
                   \/ lastOp.op = "set" /\ lastOp.accepted)
  /\ <>[](bus = {})
C20_Witness ==
  /\ lastOp.op = "update" /\ lastOp.accepted /\ lastOp.changed
  /\ writes = limit.writes
  /\ \E h \in constructed : isSynced[h]
  /\ Quiescent
====
